---- MODULE Spec2Model ----
(***************************************************************************)
(* WalletService (src/src/app/services/wallet.service.ts, the later draft  *)
(* at lines 186-587): the wallet session manager.  The four                *)
(* BehaviorSubjects, the localStorage entry, the toastr sink and the wagmi *)
(* provider calls in flight are the state; every public method, every      *)
(* subscribe/await continuation and every watcher callback is one action.  *)
(***************************************************************************)
EXTENDS Bags, FiniteSets, Integers, Sequences, TLC

(* ------------------------------ bounds --------------------------------- *)
\* number of calls the application makes in one behaviour: the commands
\* (connectWallet, disconnectWallet, reconnectWallet, switchNetwork),
\* isConnected, unsubscribe on a returned Subscription, and ngOnDestroy
MaxCommands == 2
\* number of change notifications the provider pushes to the two watchers
MaxEvents == 1

(* ------------------------- JavaScript values --------------------------- *)
\* Every JavaScript value that may be missing is a sequence of length at most
\* one.  undefined and null never meet in the same slot of this service, so
\* both are the empty sequence.
undefined == << >>
null == << >>
Some(v) == << v >>

mainnet == 1
holesky == 17000
Chains == {mainnet, holesky}
\* createConfig({ chains: [holesky], ... })
ConfiguredChains == {holesky}

Addrs == {"0xA", "0xB"}
\* connect() resolves with a non-empty list of accounts
AccountLists == {<<"0xA">>, <<"0xB", "0xA">>}

ConnectorTypes == {"injected", "coinbase", "walletConnect"}

(* ------------------------- provider (wagmi) ---------------------------- *)
\* getAccount(wagmiConfig): always an object; `chain' is only defined for a
\* chain the config lists.
Connected(a, c) ==
    [address |-> Some(a), chainId |-> Some(c),
     chain |-> IF c \in ConfiguredChains THEN Some(c) ELSE undefined,
     isConnected |-> Some(TRUE), status |-> "connected"]
Disconnected ==
    [address |-> undefined, chainId |-> undefined, chain |-> undefined,
     isConnected |-> Some(FALSE), status |-> "disconnected"]
LiveAccounts == {Disconnected} \cup {Connected(a, c) : a \in Addrs, c \in Chains}
\* the accounts the provider holds at page load or switches to on its own
ProviderAccounts == {Disconnected, Connected("0xA", holesky), Connected("0xB", mainnet)}

\* connect(wagmiConfig, { connector }) results
ConnectResults == [accounts : AccountLists, chainId : Chains]

\* reconnect(wagmiConfig, { connectors }) results as the service reads them
\* (result.account, result.chainId, result.isConnected); a result without
\* these properties reads undefined for each.
ReconnectResults ==
    {[account |-> a.address, chainId |-> a.chainId, isConnected |-> Some(TRUE)] :
        a \in ProviderAccounts \ {Disconnected}}
    \cup {[account |-> undefined, chainId |-> undefined, isConnected |-> undefined]}

\* values a provider promise rejects with
Thrown(isError, name, message) ==
    Some([isError |-> isError, name |-> name, message |-> message])
Rejections ==
    { undefined,
      Thrown(FALSE, Some("UserRejectedRequestError"), undefined),
      Thrown(TRUE, Some("UserRejectedRequestError"), Some("User rejected the request.")),
      Thrown(TRUE, Some("Error"), Some("Connector not found")),
      Thrown(FALSE, undefined, undefined) }

\* provider calls in flight
ConnectCall(k) == [call |-> "connect", connectors |-> <<k>>, chainId |-> undefined]
DisconnectCall == [call |-> "disconnect", connectors |-> << >>, chainId |-> undefined]
ReconnectCall ==
    [call |-> "reconnect", connectors |-> <<"injected", "coinbase", "walletConnect">>,
     chainId |-> undefined]
SwitchChainCall == [call |-> "switchChain", connectors |-> << >>, chainId |-> Some(holesky)]

Issue(bag, c) == bag (+) SetToBag({c})
Settle(bag, c) == bag (-) SetToBag({c})

(* ------------------------------- JSON ---------------------------------- *)
\* A JSON text is either an object literal, a sequence of members each
\* rendered as text, or something JSON.parse rejects.
Member(key, type, text) == [key |-> key, type |-> type, text |-> text]
ObjectText(members) == [syntax |-> "object", members |-> members]
InvalidText == [syntax |-> "invalid", members |-> << >>]

\* JSON.stringify({ address, chainId, isConnected }): a property whose value
\* is undefined is left out.
JSONstringify(state) ==
    ObjectText(
        (IF state.address = undefined THEN << >>
         ELSE << Member("address", "string", state.address[1]) >>)
        \o (IF state.chainId = undefined THEN << >>
            ELSE << Member("chainId", "number", ToString(state.chainId[1])) >>)
        \o (IF state.isConnected = undefined THEN << >>
            ELSE << Member("isConnected", "boolean",
                           IF state.isConnected[1] THEN "true" ELSE "false") >>))

\* reading property `key' of a parsed object literal
Prop(members, key) ==
    IF \E i \in 1..Len(members) : members[i].key = key
    THEN LET m == members[CHOOSE i \in 1..Len(members) : members[i].key = key]
         IN  IF m.type = "number"
             THEN Some(CHOOSE n \in Chains : ToString(n) = m.text)
             ELSE IF m.type = "boolean" THEN Some(m.text = "true")
             ELSE Some(m.text)
    ELSE undefined

\* JSON.parse(text): [ok |-> FALSE] stands for the SyntaxError it throws
JSONparse(text) ==
    IF text.syntax = "object"
    THEN [ok |-> TRUE,
          value |-> [address |-> Prop(text.members, "address"),
                     chainId |-> Prop(text.members, "chainId"),
                     isConnected |-> Prop(text.members, "isConnected")]]
    ELSE [ok |-> FALSE]

(* ------------------------------- state --------------------------------- *)
VARIABLES
    constructed,      \* the constructor body has run
    accountSubject,   \* current value of account$
    chainIdSubject,   \* current value of chainId$
    loadingSubject,   \* current value of loading$
    errorSubject,     \* current value of error$
    localStorage,     \* localStorage[LOCAL_STORAGE_KEY], null when absent
    unwatchAccount,   \* TRUE when the field holds a disposer from watchAccount
    unwatchChainId,   \* TRUE when the field holds a disposer from watchChainId
    toastr,           \* ToastrService: number of error() calls and the last one
    live,             \* what getAccount(wagmiConfig) returns now
    pending,          \* bag of provider calls issued and not yet settled
    watchers,         \* provider side: watch* calls made, listeners still active
    closed,           \* calls in flight whose Subscription was unsubscribed
    commands,         \* calls made on the service so far
    events,           \* watcher notifications delivered so far
    last,             \* the step taken last and its inputs
    session           \* record cleared, connect/disconnect race, connect left alone

vars == <<constructed, accountSubject, chainIdSubject, loadingSubject, errorSubject,
          localStorage, unwatchAccount, unwatchChainId, toastr, live, pending,
          watchers, closed, commands, events, last, session>>

\* the part of the state the service's own code reads and writes
Cur ==
    [accountSubject |-> accountSubject, chainIdSubject |-> chainIdSubject,
     loadingSubject |-> loadingSubject, errorSubject |-> errorSubject,
     localStorage |-> localStorage, unwatchAccount |-> unwatchAccount,
     unwatchChainId |-> unwatchChainId, toastr |-> toastr, pending |-> pending,
     watchers |-> watchers]

Commit(s) ==
    /\ accountSubject' = s.accountSubject
    /\ chainIdSubject' = s.chainIdSubject
    /\ loadingSubject' = s.loadingSubject
    /\ errorSubject' = s.errorSubject
    /\ localStorage' = s.localStorage
    /\ unwatchAccount' = s.unwatchAccount
    /\ unwatchChainId' = s.unwatchChainId
    /\ toastr' = s.toastr
    /\ pending' = s.pending
    /\ watchers' = s.watchers

\* `session' follows two things the channels do not show.
\*   cleared: a disconnect has succeeded and no connectWallet or
\*     reconnectWallet has been called, and no connect has succeeded, since;
\*   race: how a connect and a disconnect that were in flight together have
\*     completed: which of the two succeeded first and, once both have
\*     succeeded, which was later (with the connect's result).  A race is
\*     followed only when no reconnect was in flight at the first of the two
\*     completions; it is forgotten when the other call fails, when
\*     reconnectWallet is called, and, once it is over, when a new command is
\*     issued or a watcher fires;
\*   alone: a connect has succeeded that was the only provider call in flight,
\*     and since then the application has made no call and the provider has
\*     pushed no change (with the connect's result).
NoRace == [st |-> "none"]
Commands == {"connectWallet", "disconnectWallet", "reconnectWallet", "switchNetwork"}
WatcherEvents == {"watchAccount.onChange", "watchChainId.onChange"}
Unwatched == {"account.unwatched", "chainId.unwatched"}
Calls == {"isConnected", "unsubscribe", "ngOnDestroy"}
Tracked(h, step, before, inflight) ==
    LET noReconnect == ~BagIn(ReconnectCall, before)
        connectPending == \E k \in ConnectorTypes : BagIn(ConnectCall(k), inflight)
        disconnectPending == BagIn(DisconnectCall, inflight)
        over == h.race.st \in {"connectLast", "disconnectLast"}
    IN  [cleared |->
            IF step.op = "disconnect.next" THEN TRUE
            ELSE IF step.op \in {"connectWallet", "reconnectWallet", "connect.next"}
            THEN FALSE
            ELSE h.cleared,
         race |->
            IF step.op = "connect.next"
            THEN IF h.race.st = "disconnectFirst"
                 THEN [st |-> "connectLast", result |-> step.result]
                 ELSE IF h.race.st = "none" /\ disconnectPending /\ noReconnect
                 THEN [st |-> "connectFirst"]
                 ELSE h.race
            ELSE IF step.op = "disconnect.next"
            THEN IF h.race.st = "connectFirst"
                 THEN [st |-> "disconnectLast"]
                 ELSE IF h.race.st = "none" /\ connectPending /\ noReconnect
                 THEN [st |-> "disconnectFirst"]
                 ELSE h.race
            ELSE IF step.op = "connect.error"
            THEN IF h.race.st = "disconnectFirst" /\ ~connectPending
                 THEN NoRace ELSE h.race
            ELSE IF step.op = "disconnect.error"
            THEN IF h.race.st = "connectFirst" /\ ~disconnectPending
                 THEN NoRace ELSE h.race
            ELSE IF step.op \in Commands \cup WatcherEvents /\ over
            THEN NoRace
            ELSE IF step.op = "reconnectWallet"
            THEN NoRace
            ELSE h.race,
         alone |->
            IF step.op = "connect.next"
            THEN IF before = SetToBag({ConnectCall(step.connectorType)})
                 THEN [st |-> "connected", result |-> step.result]
                 ELSE NoRace
            ELSE IF step.op \in Commands \cup WatcherEvents \cup Calls \cup Unwatched
            THEN NoRace
            ELSE h.alone]

\* what a previous page load can have left under LOCAL_STORAGE_KEY
StoredTexts ==
    {JSONstringify([address |-> a.address, chainId |-> a.chainId,
                    isConnected |-> Some(TRUE)]) : a \in ProviderAccounts \ {Disconnected}}
    \cup {JSONstringify([address |-> undefined, chainId |-> undefined,
                         isConnected |-> Some(FALSE)])}
    \cup {InvalidText}

(* --------------------------- private methods --------------------------- *)
\* saveConnectionState(address, chainId, isConnected)
saveConnectionState(s, address, chainId, isConnected) ==
    LET state == [address |-> address, chainId |-> chainId, isConnected |-> isConnected]
    IN  [s EXCEPT !.localStorage = Some(JSONstringify(state))]

\* clearConnectionState()
clearConnectionState(s) == [s EXCEPT !.localStorage = null]

\* a message resolution that looks at error.message before error.name
ErrorMessage_messageFirst(error) ==
    IF error # undefined /\ error[1].message # undefined /\ error[1].message # Some("")
    THEN error[1].message[1]
    ELSE IF error # undefined /\ error[1].name = Some("UserRejectedRequestError")
    THEN "You rejected the wallet connection request."
    ELSE "An unknown error occurred. Please try again."

ErrorMessage(error) ==
    IF error # undefined /\ error[1].name = Some("UserRejectedRequestError")
    THEN "You rejected the wallet connection request."
    ELSE IF error # undefined /\ error[1].message # undefined /\ error[1].message # Some("")
    THEN error[1].message[1]
    ELSE "An unknown error occurred. Please try again."

\* a handler that always publishes new Error(errorMessage)
handleConnectionError_alwaysWraps(s, error) ==
    LET errorMessage == ErrorMessage(error)
    IN  [s EXCEPT
            !.errorSubject = Thrown(TRUE, Some("Error"), Some(errorMessage)),
            !.toastr = [calls |-> @.calls + 1,
                        last |-> Some([message |-> errorMessage,
                                       title |-> "Connection Failed"])]]

\* handleConnectionError(error)
handleConnectionError(s, error) ==
    LET errorMessage == ErrorMessage(error)
    IN  [s EXCEPT
            !.errorSubject =
                IF error # undefined /\ error[1].isError
                THEN error
                ELSE Thrown(TRUE, Some("Error"), Some(errorMessage)),
            !.toastr = [calls |-> @.calls + 1,
                        last |-> Some([message |-> errorMessage,
                                       title |-> "Connection Failed"])]]

\* reconnectWallet() up to its await: the provider call is issued
reconnectWalletStart(s) ==
    [s EXCEPT !.loadingSubject = TRUE,
              !.errorSubject = null,
              !.pending = Issue(@, ReconnectCall)]

\* an updateAccount that publishes the live account while the reconnect runs
updateAccount_publishesLive(s, account) ==
    LET savedState == s.localStorage
    IN  IF savedState # null
        THEN [reconnectWalletStart(s) EXCEPT !.accountSubject = Some(account)]
        ELSE [s EXCEPT !.accountSubject = Some(account)]

\* updateAccount(); account is what getAccount(wagmiConfig) returns
updateAccount(s, account) ==
    LET savedState == s.localStorage
    IN  IF savedState # null
        THEN LET s1 == reconnectWalletStart(s)
                 data == JSONparse(savedState[1])
             IN  IF data.ok
                 THEN [s1 EXCEPT !.accountSubject = Some(data.value)]
                 ELSE s1
        ELSE [s EXCEPT !.accountSubject = Some(account)]

\* updateChainId(): getAccount(wagmiConfig)?.chain?.id || null
updateChainId(s, account) ==
    [s EXCEPT !.chainIdSubject = IF account.chain # undefined THEN account.chain ELSE null]

\* startWatchingAccount(), startWatchingChainId()
startWatchingAccount(s) ==
    [s EXCEPT !.unwatchAccount = TRUE,
              !.watchers.watchAccount = @ + 1, !.watchers.account = TRUE]
startWatchingChainId(s) ==
    [s EXCEPT !.unwatchChainId = TRUE,
              !.watchers.watchChainId = @ + 1, !.watchers.chainId = TRUE]

\* initialize()
initialize(s, account) ==
    startWatchingChainId(startWatchingAccount(
        updateChainId(updateAccount(s, account), account)))

(* ------------------------------ actions -------------------------------- *)
Init ==
    /\ constructed = FALSE
    /\ accountSubject = undefined
    /\ chainIdSubject = null
    /\ loadingSubject = FALSE
    /\ errorSubject = null
    /\ localStorage \in {null} \cup {Some(t) : t \in StoredTexts}
    /\ unwatchAccount = FALSE
    /\ unwatchChainId = FALSE
    /\ toastr = [calls |-> 0, last |-> undefined]
    /\ live \in ProviderAccounts
    /\ pending = EmptyBag
    /\ watchers = [watchAccount |-> 0, watchChainId |-> 0,
                   account |-> FALSE, chainId |-> FALSE]
    /\ closed = EmptyBag
    /\ commands = 0
    /\ events = 0
    /\ last = [op |-> "new"]
    /\ session = [cleared |-> FALSE, race |-> NoRace, alone |-> NoRace]

\* constructor(toastr) { this.initialize(); }
Constructor ==
    /\ ~constructed
    /\ constructed' = TRUE
    /\ Commit(initialize(Cur, live))
    /\ last' = [op |-> "constructor"]
    /\ session' = Tracked(session, last', pending, pending')
    /\ UNCHANGED <<live, commands, events, closed>>

\* connectWallet(connectorType), up to the subscribe
connectWalletStart(s, connectorType) ==
    [s EXCEPT !.loadingSubject = TRUE,
              !.errorSubject = null,
              !.pending = Issue(@, ConnectCall(connectorType))]

ConnectWallet(connectorType) ==
    /\ constructed
    /\ commands < MaxCommands
    /\ commands' = commands + 1
    /\ Commit(connectWalletStart(Cur, connectorType))
    /\ last' = [op |-> "connectWallet", connectorType |-> connectorType]
    /\ session' = Tracked(session, last', pending, pending')
    /\ UNCHANGED <<constructed, live, events, closed>>

\* next: (result) => { updateAccount(); saveConnectionState(...); loading false }
connectNext(s, connectorType, result, account) ==
    LET s1 == [s EXCEPT !.pending = Settle(@, ConnectCall(connectorType))]
        s2 == updateAccount(s1, account)
        s3 == saveConnectionState(s2, Some(result.accounts[1]), Some(result.chainId),
                                  Some(TRUE))
    IN  [s3 EXCEPT !.loadingSubject = FALSE]

\* the provider's connect resolves: the connection is live, then `next' runs
ConnectNext(connectorType, result) ==
    /\ BagIn(ConnectCall(connectorType), pending)
    /\ live' = Connected(result.accounts[1], result.chainId)
    /\ Commit(connectNext(Cur, connectorType, result, live'))
    /\ last' = [op |-> "connect.next", connectorType |-> connectorType, result |-> result]
    /\ session' = Tracked(session, last', pending, pending')
    /\ UNCHANGED <<constructed, commands, events, closed>>

\* a connect error handler that also drops the session, as disconnect does
connectError_dropsSession(s, connectorType, error) ==
    LET s1 == [s EXCEPT !.pending = Settle(@, ConnectCall(connectorType))]
        s2 == handleConnectionError(s1, error)
        s3 == clearConnectionState([s2 EXCEPT !.accountSubject = undefined])
    IN  [s3 EXCEPT !.loadingSubject = FALSE]

\* error: (error) => { handleConnectionError(error); loading false }
connectError(s, connectorType, error) ==
    LET s1 == [s EXCEPT !.pending = Settle(@, ConnectCall(connectorType))]
        s2 == handleConnectionError(s1, error)
    IN  [s2 EXCEPT !.loadingSubject = FALSE]

ConnectError(connectorType, error) ==
    /\ BagIn(ConnectCall(connectorType), pending)
    /\ Commit(connectError(Cur, connectorType, error))
    /\ last' = [op |-> "connect.error", connectorType |-> connectorType, error |-> error]
    /\ session' = Tracked(session, last', pending, pending')
    /\ UNCHANGED <<constructed, live, commands, events, closed>>

\* a disconnectWallet that does not clear the previous error
disconnectWalletStart_keepsError(s) ==
    [s EXCEPT !.loadingSubject = TRUE,
              !.pending = Issue(@, DisconnectCall)]

\* disconnectWallet(), up to the subscribe
disconnectWalletStart(s) ==
    [s EXCEPT !.loadingSubject = TRUE,
              !.errorSubject = null,
              !.pending = Issue(@, DisconnectCall)]

DisconnectWallet ==
    /\ constructed
    /\ commands < MaxCommands
    /\ commands' = commands + 1
    /\ Commit(disconnectWalletStart(Cur))
    /\ last' = [op |-> "disconnectWallet"]
    /\ session' = Tracked(session, last', pending, pending')
    /\ UNCHANGED <<constructed, live, events, closed>>

\* the earlier draft's disconnect handler: the persisted record is not removed
disconnectNext_keepsRecord(s) ==
    LET s1 == [s EXCEPT !.pending = Settle(@, DisconnectCall)]
        s2 == [s1 EXCEPT !.accountSubject = undefined, !.chainIdSubject = null]
    IN  [s2 EXCEPT !.loadingSubject = FALSE]

\* next: () => { account undefined; chainId null; clearConnectionState(); loading false }
disconnectNext(s) ==
    LET s1 == [s EXCEPT !.pending = Settle(@, DisconnectCall)]
        s2 == [s1 EXCEPT !.accountSubject = undefined, !.chainIdSubject = null]
        s3 == clearConnectionState(s2)
    IN  [s3 EXCEPT !.loadingSubject = FALSE]

\* the provider's disconnect resolves: no connection is live, then `next' runs
DisconnectNext ==
    /\ BagIn(DisconnectCall, pending)
    /\ live' = Disconnected
    /\ Commit(disconnectNext(Cur))
    /\ last' = [op |-> "disconnect.next"]
    /\ session' = Tracked(session, last', pending, pending')
    /\ UNCHANGED <<constructed, commands, events, closed>>

\* a disconnect error handler that clears the channels as the success path does
disconnectError_clearsChannels(s, error) ==
    LET s1 == [s EXCEPT !.pending = Settle(@, DisconnectCall)]
        s2 == handleConnectionError(s1, error)
        s3 == [s2 EXCEPT !.accountSubject = undefined, !.chainIdSubject = null]
    IN  [s3 EXCEPT !.loadingSubject = FALSE]

\* error: (error) => { handleConnectionError(error); loading false }
disconnectError(s, error) ==
    LET s1 == [s EXCEPT !.pending = Settle(@, DisconnectCall)]
        s2 == handleConnectionError(s1, error)
    IN  [s2 EXCEPT !.loadingSubject = FALSE]

DisconnectError(error) ==
    /\ BagIn(DisconnectCall, pending)
    /\ Commit(disconnectError(Cur, error))
    /\ last' = [op |-> "disconnect.error", error |-> error]
    /\ session' = Tracked(session, last', pending, pending')
    /\ UNCHANGED <<constructed, live, commands, events, closed>>

\* reconnectWallet() called by the UI
ReconnectWallet ==
    /\ constructed
    /\ commands < MaxCommands
    /\ commands' = commands + 1
    /\ Commit(reconnectWalletStart(Cur))
    /\ last' = [op |-> "reconnectWallet"]
    /\ session' = Tracked(session, last', pending, pending')
    /\ UNCHANGED <<constructed, live, events, closed>>

\* a reconnect continuation that passes result.isConnected on without `|| false'
reconnectResolved_rawFlag(s, result) ==
    LET s1 == [s EXCEPT !.pending = Settle(@, ReconnectCall)]
        s2 == saveConnectionState(s1, result.account, result.chainId, result.isConnected)
    IN  [s2 EXCEPT !.loadingSubject = FALSE]

\* reconnectWallet() after its await resolves, with the finally block
reconnectResolved(s, result) ==
    LET s1 == [s EXCEPT !.pending = Settle(@, ReconnectCall)]
        s2 == saveConnectionState(s1, result.account, result.chainId,
                                  IF result.isConnected = Some(TRUE)
                                  THEN Some(TRUE) ELSE Some(FALSE))
    IN  [s2 EXCEPT !.loadingSubject = FALSE]

\* the provider's reconnect resolves; a connected result is the live account
ReconnectResolved(result) ==
    /\ BagIn(ReconnectCall, pending)
    /\ live' = IF result.isConnected = Some(TRUE)
               THEN Connected(result.account[1], result.chainId[1])
               ELSE live
    /\ Commit(reconnectResolved(Cur, result))
    /\ last' = [op |-> "reconnect.resolved", result |-> result]
    /\ session' = Tracked(session, last', pending, pending')
    /\ UNCHANGED <<constructed, commands, events, closed>>

\* a reconnectWallet that resets loading at the end of the try block only
reconnectRejected_noFinally(s, error) ==
    handleConnectionError([s EXCEPT !.pending = Settle(@, ReconnectCall)], error)

\* a reconnectWallet whose catch also forgets the persisted session
reconnectRejected_clearsRecord(s, error) ==
    LET s1 == [s EXCEPT !.pending = Settle(@, ReconnectCall)]
        s2 == clearConnectionState(handleConnectionError(s1, error))
    IN  [s2 EXCEPT !.loadingSubject = FALSE]

\* reconnectWallet() after its await rejects: the catch and the finally block
reconnectRejected(s, error) ==
    LET s1 == [s EXCEPT !.pending = Settle(@, ReconnectCall)]
        s2 == handleConnectionError(s1, error)
    IN  [s2 EXCEPT !.loadingSubject = FALSE]

ReconnectRejected(error) ==
    /\ BagIn(ReconnectCall, pending)
    /\ Commit(reconnectRejected(Cur, error))
    /\ last' = [op |-> "reconnect.rejected", error |-> error]
    /\ session' = Tracked(session, last', pending, pending')
    /\ UNCHANGED <<constructed, live, commands, events, closed>>

\* a switchNetwork gated by the loading indicator like the other commands
switchNetworkStart_gated(s) ==
    [s EXCEPT !.loadingSubject = TRUE,
              !.errorSubject = null,
              !.pending = Issue(@, SwitchChainCall)]

\* switchNetwork() up to its await
switchNetworkStart(s) == [s EXCEPT !.pending = Issue(@, SwitchChainCall)]

SwitchNetwork ==
    /\ constructed
    /\ commands < MaxCommands
    /\ commands' = commands + 1
    /\ Commit(switchNetworkStart(Cur))
    /\ last' = [op |-> "switchNetwork"]
    /\ session' = Tracked(session, last', pending, pending')
    /\ UNCHANGED <<constructed, live, events, closed>>

\* switchNetwork() after its await resolves: return true
switchNetworkResolved(s) ==
    [state |-> [s EXCEPT !.pending = Settle(@, SwitchChainCall)], returns |-> TRUE]

\* the provider's switchChain resolves: a live connection is now on holesky
SwitchNetworkResolved ==
    /\ BagIn(SwitchChainCall, pending)
    /\ live' = IF live.isConnected = Some(TRUE)
               THEN Connected(live.address[1], holesky)
               ELSE live
    /\ Commit(switchNetworkResolved(Cur).state)
    /\ last' = [op |-> "switchNetwork.resolved",
                returns |-> switchNetworkResolved(Cur).returns]
    /\ session' = Tracked(session, last', pending, pending')
    /\ UNCHANGED <<constructed, commands, events, closed>>

\* a switchNetwork whose `return true' follows the try/catch instead of the await
switchNetworkRejected_returnsTrue(s, error) ==
    [state |-> handleConnectionError([s EXCEPT !.pending = Settle(@, SwitchChainCall)],
                                     error),
     returns |-> TRUE]

\* switchNetwork() after its await rejects: handleConnectionError, return false
switchNetworkRejected(s, error) ==
    [state |-> handleConnectionError([s EXCEPT !.pending = Settle(@, SwitchChainCall)],
                                     error),
     returns |-> FALSE]

SwitchNetworkRejected(error) ==
    /\ BagIn(SwitchChainCall, pending)
    /\ Commit(switchNetworkRejected(Cur, error).state)
    /\ last' = [op |-> "switchNetwork.rejected",
                returns |-> switchNetworkRejected(Cur, error).returns, error |-> error]
    /\ session' = Tracked(session, last', pending, pending')
    /\ UNCHANGED <<constructed, live, commands, events, closed>>

\* an account watcher that also republishes the account's chain
onAccountChange_alsoChain(s, account) ==
    [s EXCEPT !.accountSubject = account,
              !.chainIdSubject = IF account = undefined THEN null ELSE account[1].chainId]

\* watchAccount onChange: (account) => accountSubject.next(account || undefined)
onAccountChange(s, account) == [s EXCEPT !.accountSubject = account]

\* the provider's account changes and it notifies the watcher
AccountChanged(account) ==
    /\ constructed
    /\ events < MaxEvents
    /\ events' = events + 1
    /\ live' = IF account = undefined THEN Disconnected ELSE account[1]
    /\ live' # live
    /\ IF watchers.account
       THEN /\ Commit(onAccountChange(Cur, account))
            /\ last' = [op |-> "watchAccount.onChange", account |-> account]
       ELSE /\ Commit(Cur)
            /\ last' = [op |-> "account.unwatched"]
    /\ session' = Tracked(session, last', pending, pending')
    /\ UNCHANGED <<constructed, commands, closed>>

\* watchChainId onChange: (chainId) => chainIdSubject.next(chainId || null)
onChainIdChange(s, chainId) == [s EXCEPT !.chainIdSubject = chainId]

\* the provider's chain changes and it notifies the watcher
ChainIdChanged(chainId) ==
    /\ constructed
    /\ events < MaxEvents
    /\ events' = events + 1
    /\ IF watchers.chainId
       THEN /\ Commit(onChainIdChange(Cur, chainId))
            /\ last' = [op |-> "watchChainId.onChange", chainId |-> chainId]
       ELSE /\ Commit(Cur)
            /\ last' = [op |-> "chainId.unwatched"]
    /\ session' = Tracked(session, last', pending, pending')
    /\ UNCHANGED <<constructed, live, commands, closed>>

\* an isConnected that answers from the account channel
isConnected_fromChannel(s, account) ==
    [state |-> s,
     returns |-> s.accountSubject # undefined
                     /\ s.accountSubject[1].isConnected = Some(TRUE)]

\* isConnected(): !!getAccount(wagmiConfig)?.isConnected
isConnected(s, account) ==
    [state |-> s, returns |-> account.isConnected = Some(TRUE)]

IsConnected ==
    /\ constructed
    /\ commands < MaxCommands
    /\ commands' = commands + 1
    /\ Commit(isConnected(Cur, live).state)
    /\ last' = [op |-> "isConnected", returns |-> isConnected(Cur, live).returns]
    /\ session' = Tracked(session, last', pending, pending')
    /\ UNCHANGED <<constructed, live, events, closed>>

\* an ngOnDestroy that stops the account watcher only
ngOnDestroy_accountOnly(s) ==
    [s EXCEPT !.watchers.account = IF s.unwatchAccount THEN FALSE ELSE @]

\* ngOnDestroy(): this.unwatchAccount(); this.unwatchChainId();  a field that
\* still holds its initial () => {} does nothing when called
ngOnDestroy(s) ==
    [s EXCEPT !.watchers.account = IF s.unwatchAccount THEN FALSE ELSE @,
              !.watchers.chainId = IF s.unwatchChainId THEN FALSE ELSE @]

NgOnDestroy ==
    /\ constructed
    /\ commands < MaxCommands
    /\ commands' = commands + 1
    /\ Commit(ngOnDestroy(Cur))
    /\ last' = [op |-> "ngOnDestroy"]
    /\ session' = Tracked(session, last', pending, pending')
    /\ UNCHANGED <<constructed, live, events, closed>>

\* the Subscriptions connectWallet and disconnectWallet return
Handles == {ConnectCall(k) : k \in ConnectorTypes} \cup {DisconnectCall}

\* the caller unsubscribes a returned Subscription while its promise is
\* pending: the provider call goes on, the subscriber is closed
Unsubscribe(c) ==
    /\ BagIn(c, pending)
    /\ commands < MaxCommands
    /\ commands' = commands + 1
    /\ Commit([Cur EXCEPT !.pending = Settle(@, c)])
    /\ closed' = Issue(closed, c)
    /\ last' = [op |-> "unsubscribe", call |-> c]
    /\ session' = Tracked(session, last', pending, pending')
    /\ UNCHANGED <<constructed, live, events>>

\* from(promise).subscribe({next, error}) after unsubscribe(): neither handler
\* is called when the promise settles
settledClosed(s, c, outcome) == s

\* how the promise behind a closed subscriber settles; a rejection's value
\* reaches no handler
Outcomes(c) ==
    {[resolved |-> FALSE]}
    \cup IF c.call = "connect"
         THEN {[resolved |-> TRUE, result |-> r] : r \in ConnectResults}
         ELSE {[resolved |-> TRUE]}

\* the provider call behind an unsubscribed Subscription settles
SettledClosed(c, outcome) ==
    /\ BagIn(c, closed)
    /\ closed' = Settle(closed, c)
    /\ live' = IF ~outcome.resolved THEN live
               ELSE IF c.call = "connect"
               THEN Connected(outcome.result.accounts[1], outcome.result.chainId)
               ELSE Disconnected
    /\ Commit(settledClosed(Cur, c, outcome))
    /\ last' = [op |-> "settled.closed", call |-> c, outcome |-> outcome]
    /\ session' = Tracked(session, last', pending, pending')
    /\ UNCHANGED <<constructed, commands, events>>

Next ==
    \/ Constructor
    \/ \E k \in ConnectorTypes : ConnectWallet(k)
    \/ \E k \in ConnectorTypes, r \in ConnectResults : ConnectNext(k, r)
    \/ \E k \in ConnectorTypes, e \in Rejections : ConnectError(k, e)
    \/ DisconnectWallet
    \/ DisconnectNext
    \/ \E e \in Rejections : DisconnectError(e)
    \/ ReconnectWallet
    \/ \E r \in ReconnectResults : ReconnectResolved(r)
    \/ \E e \in Rejections : ReconnectRejected(e)
    \/ SwitchNetwork
    \/ SwitchNetworkResolved
    \/ \E e \in Rejections : SwitchNetworkRejected(e)
    \/ \E a \in {undefined} \cup {Some(x) : x \in ProviderAccounts} : AccountChanged(a)
    \/ \E c \in {undefined} \cup {Some(x) : x \in Chains} : ChainIdChanged(c)
    \/ IsConnected
    \/ NgOnDestroy
    \/ \E c \in Handles : Unsubscribe(c)
    \/ \E c \in Handles : \E o \in Outcomes(c) : SettledClosed(c, o)

Spec == Init /\ [][Next]_vars

\* A provider promise settles (a call in flight cannot be cancelled and runs to
\* completion) and the event loop then runs the continuation of the await.
ReconnectSettles ==
    \/ \E r \in ReconnectResults : ReconnectResolved(r)
    \/ \E e \in Rejections : ReconnectRejected(e)

FairSpec == Spec /\ WF_vars(ReconnectSettles)


(* ------------------------------ properties ----------------------------- *)
\* the object JSON.parse returns for the persisted text (when it parses)
HasRecord == localStorage # null /\ JSONparse(localStorage[1]).ok
Record == JSONparse(localStorage[1]).value
RecordNext == JSONparse(localStorage'[1]).value
InFlight(c) == BagIn(c, pending)
SessionCalls == {ConnectCall(k) : k \in ConnectorTypes} \cup {DisconnectCall, ReconnectCall}

\* C1: after the success handler of connectWallet, for any connector kind and
\* any prior content of the store, account$ holds a value with isConnected
\* true, chainId$ equals that account's chain, and the persisted record
\* {address, chainId, isConnected} matches the published account and chain.
C1_ConnectSuccessConsistent ==
    last.op = "connect.next" =>
        /\ accountSubject # undefined
        /\ accountSubject[1].isConnected = Some(TRUE)
        /\ chainIdSubject = accountSubject[1].chainId
        /\ HasRecord
        /\ Record.address = accountSubject[1].address
        /\ Record.chainId = chainIdSubject
        /\ Record.isConnected = Some(TRUE)

\* C2: after the success handler of connectWallet, account$ holds the
\* provider's live account whatever the store contained, and the record
\* written is {address: result.accounts[0], chainId: result.chainId,
\* isConnected: true}.
C2_ConnectPublishesLiveAccount ==
    last.op = "connect.next" =>
        /\ accountSubject = Some(live)
        /\ HasRecord
        /\ Record = [address |-> Some(last.result.accounts[1]),
                     chainId |-> Some(last.result.chainId),
                     isConnected |-> Some(TRUE)]

\* C3: the error handler of connectWallet leaves the persisted record,
\* account$ and chainId$ as they were, passes the error to
\* handleConnectionError (error$ and one toastr call) and sets loading$ false.
C3_ConnectFailureFrame ==
    [][last'.op = "connect.error" =>
        /\ localStorage' = localStorage
        /\ accountSubject' = accountSubject
        /\ chainIdSubject' = chainIdSubject
        /\ errorSubject' # null
        /\ toastr'.calls = toastr.calls + 1
        /\ toastr'.last = Some([message |-> ErrorMessage(last'.error),
                                title |-> "Connection Failed"])
        /\ loadingSubject' = FALSE]_vars

C3_Witness ==
    /\ last.op = "connect.error"
    /\ HasRecord
    /\ accountSubject # undefined
    /\ toastr.calls = 1
    /\ ~loadingSubject

\* C4: after the success handler of disconnectWallet, account$ is undefined,
\* chainId$ is null, no record is persisted and loading$ is false.
C4_DisconnectSuccessClears ==
    last.op = "disconnect.next" =>
        /\ accountSubject = undefined
        /\ chainIdSubject = null
        /\ localStorage = null
        /\ loadingSubject = FALSE

C4_Witness ==
    /\ last.op = "disconnect.next"
    /\ localStorage = null
    /\ accountSubject = undefined
    /\ live = Disconnected

\* C5: the error handler of disconnectWallet leaves account$, chainId$ and
\* the persisted record unchanged; only error$, the toastr sink and loading$
\* (set to false) are affected.
C5_DisconnectFailureFrame ==
    [][last'.op = "disconnect.error" =>
        /\ accountSubject' = accountSubject
        /\ chainIdSubject' = chainIdSubject
        /\ localStorage' = localStorage
        /\ unwatchAccount' = unwatchAccount
        /\ unwatchChainId' = unwatchChainId
        /\ errorSubject' # null
        /\ toastr'.calls = toastr.calls + 1
        /\ loadingSubject' = FALSE]_vars

C5_Witness ==
    /\ last.op = "disconnect.error"
    /\ HasRecord
    /\ accountSubject # undefined
    /\ accountSubject[1].isConnected = Some(TRUE)
    /\ errorSubject # null
    /\ ~loadingSubject

C7_RestorePublishesRecordChain ==
    last.op = "constructor" /\ HasRecord =>
        /\ accountSubject = Some(Record)
        /\ chainIdSubject = Record.chainId

\* C8: account$ and chainId$ are consistent in every state: a connected value
\* on account$ comes with its chainId on chainId$, an absent account$ comes
\* with an absent chainId$.
C8_AccountChainConsistent ==
    constructed =>
        /\ (accountSubject # undefined /\ accountSubject[1].isConnected = Some(TRUE)
                => chainIdSubject = accountSubject[1].chainId)
        /\ (accountSubject = undefined => chainIdSubject = null)

\* C9: whenever a connect, disconnect or reconnect provider call is in
\* flight, loading$ is true.
C9_LoadingWhileInFlight ==
    (\E c \in SessionCalls : InFlight(c)) => loadingSubject = TRUE

\* C10 as claimed: every record the manager writes has isConnected true and
\* carries an address and a chainId, whether connectWallet or reconnectWallet
\* wrote it.
C10_EveryWrittenRecordConnected ==
    [][last'.op \in {"connect.next", "reconnect.resolved"} =>
        /\ RecordNext.isConnected = Some(TRUE)
        /\ RecordNext.address # undefined
        /\ RecordNext.chainId # undefined]_vars

\* C10 as amended: a record connectWallet writes has isConnected true, the
\* first returned account and the returned chainId; a record reconnectWallet
\* writes has the result's account and chainId (absent when the result has
\* none) and isConnected true exactly when the result reports connected,
\* false otherwise.
C10_WrittenRecordFollowsResult ==
    [][/\ last'.op = "connect.next" =>
            /\ RecordNext.isConnected = Some(TRUE)
            /\ RecordNext.address = Some(last'.result.accounts[1])
            /\ RecordNext.chainId = Some(last'.result.chainId)
       /\ last'.op = "reconnect.resolved" =>
            /\ RecordNext.isConnected = Some(last'.result.isConnected = Some(TRUE))
            /\ RecordNext.address = last'.result.account
            /\ RecordNext.chainId = last'.result.chainId]_vars

C10_Witness ==
    /\ last.op = "reconnect.resolved"
    /\ HasRecord
    /\ Record.isConnected = Some(FALSE)
    /\ Record.address = undefined

\* the steps in which a provider call fails
Failures ==
    {"connect.error", "disconnect.error", "reconnect.rejected", "switchNetwork.rejected"}

\* C11: once a disconnectWallet has succeeded, the persisted record stays
\* absent until connectWallet is called again, whatever operations that were
\* already in flight (the reconnect launched at startup or by an earlier
\* connect's refresh) do when they complete later.
C11_RecordAbsentAfterDisconnect ==
    session.cleared => localStorage = null

\* C12: when a connectWallet and a disconnectWallet overlap and both succeed,
\* then once every operation has completed the account, the chain id and the
\* persisted record are those the later-completing call produces on its own:
\* a disconnect completing last leaves no account, no chain id and no record;
\* a connect completing last leaves a connected account and the record of its
\* result.
C12_LaterCompletionWins ==
    /\ session.race.st = "disconnectLast" /\ pending = EmptyBag
           => /\ accountSubject = undefined
              /\ chainIdSubject = null
              /\ localStorage = null
    /\ session.race.st = "connectLast" /\ pending = EmptyBag
           => /\ accountSubject # undefined
              /\ accountSubject[1].isConnected = Some(TRUE)
              /\ HasRecord
              /\ Record = [address |-> Some(session.race.result.accounts[1]),
                           chainId |-> Some(session.race.result.chainId),
                           isConnected |-> Some(TRUE)]

\* C13: a routed failure resolves its message in this order: the fixed
\* rejection text when the error's name is UserRejectedRequestError, even when
\* it carries a message of its own; otherwise its non-empty message verbatim;
\* otherwise the fixed unknown-error text.  The message reaches the
\* notification sink with the title "Connection Failed".
C13_MessageResolution ==
    last.op \in Failures =>
        LET error == last.error
            named == error # undefined
                         /\ error[1].name = Some("UserRejectedRequestError")
            worded == error # undefined
                         /\ error[1].message # undefined
                         /\ error[1].message # Some("")
            shown == toastr.last[1]
        IN  /\ toastr.last # undefined
            /\ shown.title = "Connection Failed"
            /\ named => shown.message = "You rejected the wallet connection request."
            /\ ~named /\ worded => shown.message = error[1].message[1]
            /\ ~named /\ ~worded =>
                   shown.message = "An unknown error occurred. Please try again."

C13_Witness ==
    /\ last.op \in Failures
    /\ last.error = Thrown(TRUE, Some("UserRejectedRequestError"),
                           Some("User rejected the request."))
    /\ toastr.last = Some([message |-> "You rejected the wallet connection request.",
                           title |-> "Connection Failed"])

\* C14 as stated: after a connectWallet rejected with a user rejection, a
\* plain object or an error value with its own message, the error channel
\* holds an error whose message is the fixed rejection text, the sink has that
\* text with the title "Connection Failed", and loading is false.
C14_RejectionPublishesFixedText ==
    /\ last.op = "connect.error"
    /\ last.error # undefined
    /\ last.error[1].name = Some("UserRejectedRequestError")
    => /\ errorSubject # null
       /\ errorSubject[1].message = Some("You rejected the wallet connection request.")
       /\ toastr.last = Some([message |-> "You rejected the wallet connection request.",
                              title |-> "Connection Failed"])
       /\ loadingSubject = FALSE

\* C14 amended: after a connectWallet rejected with a user rejection, the sink
\* has the fixed rejection text with the title "Connection Failed" and loading
\* is false; the error channel holds the rejection itself when it is an error
\* value (its own message kept), and a new error with the fixed text when it
\* is a plain object.
C14_RejectionPublishedAsThrown ==
    /\ last.op = "connect.error"
    /\ last.error # undefined
    /\ last.error[1].name = Some("UserRejectedRequestError")
    => /\ errorSubject # null
       /\ IF last.error[1].isError
          THEN errorSubject = last.error
          ELSE /\ errorSubject[1].isError
               /\ errorSubject[1].message
                      = Some("You rejected the wallet connection request.")
       /\ toastr.last = Some([message |-> "You rejected the wallet connection request.",
                              title |-> "Connection Failed"])
       /\ loadingSubject = FALSE

C14_Witness ==
    /\ last.op = "connect.error"
    /\ last.error = Thrown(TRUE, Some("UserRejectedRequestError"),
                           Some("User rejected the request."))
    /\ errorSubject = last.error
    /\ loadingSubject = FALSE

\* C15: every failure of a provider call (connect, disconnect, reconnect,
\* switchChain) is routed in the step in which the call fails, with exactly
\* one notification and one update of the error channel; no other step
\* notifies, so notifications count the failed calls; and after a failure
\* every command can still be issued.
C15_OneNotificationPerFailure ==
    /\ [][IF \/ last'.op \in Failures
             \/ last'.op = "settled.closed" /\ ~last'.outcome.resolved
          THEN /\ toastr'.calls = toastr.calls + 1
               /\ errorSubject' # null
          ELSE toastr' = toastr]_vars
    /\ [](last.op \in Failures /\ commands < MaxCommands
            => /\ \A k \in ConnectorTypes : ENABLED ConnectWallet(k)
               /\ ENABLED DisconnectWallet
               /\ ENABLED ReconnectWallet
               /\ ENABLED SwitchNetwork)

\* C16: a persisted record that cannot be parsed at construction behaves like
\* no record: construction publishes the live provider account, launches no
\* reconnect and completes (both watchers registered).
C16_MalformedRecordAsAbsent ==
    last.op = "constructor" /\ localStorage = Some(InvalidText)
        => /\ accountSubject = Some(live)
           /\ ~InFlight(ReconnectCall)
           /\ loadingSubject = FALSE
           /\ unwatchAccount /\ unwatchChainId

\* C17: switchNetwork returns true exactly when the provider's switchChain
\* resolves; when the call rejects it returns false and the failure is notified
\* exactly once.
C17_SwitchNetworkReturns ==
    [][/\ last'.op = "switchNetwork.resolved"
           => /\ last'.returns = TRUE
              /\ toastr' = toastr
              /\ errorSubject' = errorSubject
       /\ last'.op = "switchNetwork.rejected"
           => /\ last'.returns = FALSE
              /\ toastr'.calls = toastr.calls + 1]_vars

C17_Witness ==
    /\ last.op = "switchNetwork.rejected"
    /\ last.returns = FALSE
    /\ toastr.calls = 1

\* C18 as stated: a successful reconnectWallet overwrites the persisted record
\* with the returned account, the returned chain id and the returned
\* isConnected flag; a failed attempt leaves the record as it was and routes
\* the failure.
C18_ReconnectRecordIsResult ==
    [][/\ last'.op = "reconnect.resolved"
           => /\ localStorage' # null
              /\ JSONparse(localStorage'[1]).ok
              /\ RecordNext = [address |-> last'.result.account,
                               chainId |-> last'.result.chainId,
                               isConnected |-> last'.result.isConnected]
       /\ last'.op = "reconnect.rejected"
           => /\ localStorage' = localStorage
              /\ toastr'.calls = toastr.calls + 1
              /\ errorSubject' # null]_vars

\* C18 amended: a successful reconnectWallet overwrites the persisted record
\* with the returned account, the returned chain id, and an isConnected flag
\* that is true when the returned flag is true and false otherwise (also when
\* the result carries no flag); a failed attempt leaves the record as it was
\* and routes the failure.
C18_ReconnectRecordCoercesFlag ==
    [][/\ last'.op = "reconnect.resolved"
           => /\ localStorage' # null
              /\ JSONparse(localStorage'[1]).ok
              /\ RecordNext = [address |-> last'.result.account,
                               chainId |-> last'.result.chainId,
                               isConnected |->
                                   Some(last'.result.isConnected = Some(TRUE))]
       /\ last'.op = "reconnect.rejected"
           => /\ localStorage' = localStorage
              /\ toastr'.calls = toastr.calls + 1
              /\ errorSubject' # null]_vars

C18_Witness ==
    /\ last.op = "reconnect.rejected"
    /\ HasRecord
    /\ Record.isConnected = Some(TRUE)
    /\ errorSubject # null

\* C19: every reconnectWallet call ends by setting loading to false, when the
\* provider call resolves and when it rejects; with provider calls that
\* settle, a reconnect in flight is always followed by such a step.
C19_ReconnectResetsLoading ==
    /\ [][last'.op \in {"reconnect.resolved", "reconnect.rejected"}
              => loadingSubject' = FALSE]_vars
    /\ InFlight(ReconnectCall)
           ~> /\ last.op \in {"reconnect.resolved", "reconnect.rejected"}
              /\ loadingSubject = FALSE

C19_Witness ==
    /\ last.op = "reconnect.rejected"
    /\ loadingSubject = FALSE
    /\ ~InFlight(ReconnectCall)

\* C20: connectWallet, disconnectWallet and reconnectWallet (also the
\* reconnect launched by a refresh at construction) set loading true and clear
\* the error channel before their provider call is in flight; and the error
\* channel receives an error only in a step that routes a failure, so no
\* earlier error is on the channel while a later operation waits unless a
\* failure was routed in between.
C20_StartClearsError ==
    /\ [](last.op \in {"connectWallet", "disconnectWallet", "reconnectWallet"}
            => /\ loadingSubject = TRUE
               /\ errorSubject = null
               /\ \E c \in SessionCalls : InFlight(c))
    /\ [](last.op = "connectWallet" => InFlight(ConnectCall(last.connectorType)))
    /\ [](last.op = "disconnectWallet" => InFlight(DisconnectCall))
    /\ [](last.op = "reconnectWallet" => InFlight(ReconnectCall))
    /\ [](last.op = "constructor" /\ InFlight(ReconnectCall)
            => loadingSubject = TRUE /\ errorSubject = null)
    /\ [][errorSubject' # null /\ errorSubject' # errorSubject
              => last'.op \in Failures]_vars

C20_Witness ==
    /\ last.op = "disconnectWallet"
    /\ toastr.calls = 1
    /\ errorSubject = null
    /\ loadingSubject = TRUE

\* C21: isConnected() returns the connected flag of the provider's live
\* account, whatever the account channel and the persisted record hold, and
\* calling it changes nothing.
C21_IsConnectedReadsProvider ==
    /\ [](last.op = "isConnected"
            => IF live = Disconnected THEN last.returns = FALSE
               ELSE last.returns = TRUE)
    /\ [][last'.op = "isConnected"
              => UNCHANGED <<accountSubject, chainIdSubject, loadingSubject,
                             errorSubject, localStorage, unwatchAccount,
                             unwatchChainId, toastr, live, pending, watchers,
                             closed>>]_vars

C21_Witness ==
    /\ last.op = "isConnected"
    /\ last.returns = FALSE
    /\ live = Disconnected
    /\ accountSubject # undefined
    /\ accountSubject[1].isConnected = Some(TRUE)
    /\ HasRecord

\* C22: switchNetwork never changes the loading, account and chainId channels
\* or the persisted record, whatever its outcome; it leaves the error channel
\* as it is when it starts and when the provider resolves, and changes it only
\* through the common failure routing when the provider rejects.
C22_SwitchNetworkFrame ==
    [][/\ last'.op \in {"switchNetwork", "switchNetwork.resolved",
                        "switchNetwork.rejected"}
           => UNCHANGED <<loadingSubject, accountSubject, chainIdSubject,
                          localStorage>>
       /\ last'.op \in {"switchNetwork", "switchNetwork.resolved"}
           => UNCHANGED <<errorSubject, toastr>>
       /\ last'.op = "switchNetwork.rejected"
           => /\ errorSubject' # null
              /\ toastr'.calls = toastr.calls + 1
              /\ toastr'.last[1].title = "Connection Failed"]_vars

C22_Witness ==
    /\ last.op = "switchNetwork"
    /\ errorSubject # null
    /\ InFlight(SwitchChainCall)

C25_UnsubscribedStillHandled ==
    last.op = "settled.closed"
        => /\ loadingSubject = FALSE
           /\ ~last.outcome.resolved => errorSubject # null
           /\ last.outcome.resolved /\ last.call.call = "connect" => HasRecord
           /\ last.outcome.resolved /\ last.call.call = "disconnect"
                  => localStorage = null /\ accountSubject = undefined

\* C26: whenever no connect, disconnect or reconnect provider call is in
\* flight, the loading channel is false, however the operations overlapped.
C26_IdleNotLoading ==
    (\A c \in SessionCalls : ~InFlight(c) /\ ~BagIn(c, closed))
        => loadingSubject = FALSE

\* C27: after a connectWallet has succeeded, as long as the application makes
\* no further call and the provider pushes no change, loading stays false and
\* the persisted record stays the one that connect wrote: the first returned
\* account, the returned chain id and isConnected true.
C27_StableAfterConnect ==
    session.alone.st = "connected"
        => /\ loadingSubject = FALSE
           /\ HasRecord
           /\ Record = [address |-> Some(session.alone.result.accounts[1]),
                        chainId |-> Some(session.alone.result.chainId),
                        isConnected |-> Some(TRUE)]

====
